---- MODULE Spec2Model ----
(***************************************************************************)
(* The reminder notification engine of Botie-Backend: the ReminderService  *)
(* (scheduler loops, trigger passes, processReminder, the call dispatch    *)
(* step and the 35 s status poll) and the Twilio call-status webhook.      *)
(*                                                                         *)
(* The process is single threaded: code between two awaits is one atomic   *)
(* step.  Every await on the document store, the mail service or the call  *)
(* provider is a suspension point, so every asynchronous invocation is a   *)
(* task with a program counter, and one action is one store or network     *)
(* operation together with the synchronous code that follows it.  An await *)
(* on an operation that touches no shared state (the e-mail send) is       *)
(* merged with the step that issues it.                                    *)
(***************************************************************************)
EXTENDS Integers, Sequences, FiniteSets, Bags, TLC

\* ---------------------------------------------------------------- bounds
MaxPasses    == 2   \* evaluation passes (ticks, manual triggers, location updates) started
MaxNow       == 1   \* the clock runs 0..MaxNow
MaxResets    == 1   \* administrative resets performed
MaxStarts    == 2   \* calls of start()
MaxCallbacks == 2   \* status callbacks delivered by the call provider

\* ------------------------------------------------------ program constants
Null         == -1     \* JavaScript null / undefined in a numeric field
MaxAttempts  == 2      \* "if (reminder.callAttempts >= 2)"
NearMeters   == 100    \* "distance <= 0.1" (kilometres), in metres

ReminderAt   == 0                 \* the reminder's coordinates, metres along a meridian
Locations    == {100, 101}        \* owner locations reported or stored
DueAt        == 1                 \* reminderDateTime of a reminder that has one

TriggerTypes == {"time", "location"}

VARIABLES
    now,              \* Date.now(), in ticks
    db,               \* Reminder collection: id -> document
    owner,            \* the User document of the reminders' owner
    activeReminders,  \* ReminderService.activeReminders (keys of the Map)
    timeCronJob,      \* ReminderService.timeCronJob: a cron task id or Null
    locationCronJob,  \* ReminderService.locationCronJob
    cronTasks,        \* node-cron tasks created so far: id -> [loop, running]
    tasks,            \* bag of asynchronous invocations in progress
    timers,           \* bag of pending setTimeout callbacks
    calls,            \* the call provider: call sid -> [status, duration]
    faults,           \* whether the store, the mail service and the provider may fail
    hist,             \* history: what has been dispatched and written
    budget            \* history: how many bounded inputs have been used

vars == <<now, db, owner, activeReminders, timeCronJob, locationCronJob,
          cronTasks, tasks, timers, calls, faults, hist, budget>>

\* ------------------------------------------------------------- documents
\* A freshly created reminder document (README "Notification Tracking
\* Fields" and "Database Tracking").
NewReminder(dateTime) ==
    [ reminderDateTime            |-> dateTime,
      coordinates                 |-> ReminderAt,
      isDeleted                   |-> FALSE,
      timeNotificationSent        |-> FALSE,
      timeNotificationSentAt      |-> Null,
      locationNotificationSent    |-> FALSE,
      locationNotificationSentAt  |-> Null,
      callAttempts                |-> 0,
      lastCallAttempt             |-> Null,
      callStatus                  |-> "not_called",
      callSid                     |-> Null ]

Ids == DOMAIN db

\* key of the dedup map: `${triggerType}_${reminder._id}`
reminderKey(type, r) == <<type, r>>

\* ----------------------------------------------------------------- tasks
NoTodo == << >>

Task(kind, pc) ==
    [ kind |-> kind, pc |-> pc, todo |-> NoTodo, loc |-> Null, rem |-> Null, id |-> Null,
      att |-> Null, sid |-> Null, status |-> "", dur |-> Null,
      newStatus |-> "", retry |-> FALSE ]

NoKey == << >>

Timer(kind, r, sid, key) == [ kind |-> kind, r |-> r, sid |-> sid, key |-> key ]

One(x) == SetToBag({x})

Running == BagToSet(tasks)

\* replace task t by task u
Become(t, u) == tasks' = (tasks (-) One(t)) (+) One(u)
\* task t ends
End(t) == tasks' = tasks (-) One(t)

\* ------------------------------------------------------------- histories
Bump(f, k) == [f EXCEPT ![k] = @ + 1]

NoHist ==
    [ emails   |-> [k \in TriggerTypes \X Ids |-> 0],   \* sendEmail succeeded
      pushes   |-> [k \in TriggerTypes \X Ids |-> 0],   \* emitNotification ran
      sets     |-> [k \in TriggerTypes \X Ids |-> 0],   \* notified flag persisted
      resets   |-> [k \in TriggerTypes \X Ids |-> 0],   \* administrative resets
      placed   |-> [r \in Ids |-> 0],                   \* calls placed
      retries  |-> [r \in Ids |-> 0],                   \* retry timers armed
      redials  |-> [r \in Ids |-> 0],                   \* retry timers fired
      refused  |-> [r \in Ids |-> 0],                   \* dispatches stopped by the attempts guard
      replied  |-> {},                                  \* HTTP status codes the webhook answered with
      stopped  |-> {} ]                                 \* timers that were pending at a stop()

NoBudget == [ passes |-> 0, time |-> 0, location |-> 0, update |-> 0,
              resets |-> 0, starts |-> 0, callbacks |-> 0 ]

\* outcomes of an awaited store / mail / provider operation: TRUE = resolved
Outcomes == IF faults THEN {TRUE, FALSE} ELSE {TRUE}

\* the order in which the store returns documents: ascending id
RECURSIVE SeqOf(_)
SeqOf(S) ==
    IF S = {} THEN << >>
    ELSE LET m == CHOOSE x \in S : \A y \in S : x <= y
         IN <<m>> \o SeqOf(S \ {m})

\* A findByIdAndUpdate / save of document r: the pre(/^find/) hook of the
\* schema filters soft-deleted documents out of findOneAndUpdate.
Update(r, fields) ==
    IF r \in Ids /\ ~db[r].isDeleted
    THEN [db EXCEPT ![r] = [f \in DOMAIN @ |-> IF f \in DOMAIN fields THEN fields[f] ELSE @[f]]]
    ELSE db

\* reminder.save(): Mongoose writes the modified paths only, by _id.
Save(r, fields) ==
    IF r \in Ids
    THEN [db EXCEPT ![r] = [f \in DOMAIN @ |-> IF f \in DOMAIN fields THEN fields[f] ELSE @[f]]]
    ELSE db

\* ------------------------------------------------------------- distance
\* calculateDistance for two points on one meridian (dLon = 0), in metres.
calculateDistance(a, b) == IF a >= b THEN a - b ELSE b - a

IsNear(loc, r) == loc # Null /\ calculateDistance(loc, db[r].coordinates) <= NearMeters

\* isUserNearReminder(reminder), reminder.user populated when the pass queried
\* (the reminder's user with the currentLocation the query populated); a
\* latitude of 0 is falsy and is taken for a missing location
isUserNearReminder(t, r) == t.loc # 0 /\ IsNear(t.loc, r)

\* -------------------------------------------------------------- queries
\* checkTimeBasedReminders: Reminder.find({reminderDateTime <= now, ...})
DueReminders ==
    { r \in Ids : /\ db[r].reminderDateTime # Null
                  /\ db[r].reminderDateTime <= now
                  /\ ~db[r].timeNotificationSent
                  /\ ~db[r].isDeleted }

\* checkLocationBasedReminders: Reminder.find({locationNotificationSent != true, ...})
LocationReminders ==
    { r \in Ids : /\ ~db[r].locationNotificationSent
                  /\ ~db[r].isDeleted
                  /\ db[r].coordinates # Null }

\* handleLocationUpdate: Reminder.find({user, locationNotificationSent: false,
\* reminderDateTime null or absent})
UpdateReminders ==
    { r \in Ids : /\ ~db[r].locationNotificationSent
                  /\ ~db[r].isDeleted
                  /\ db[r].reminderDateTime = Null }

\* ------------------------------------------------------------ scheduler
CanStartPass == budget.passes < MaxPasses

\* a pass starts: the query is issued and answered, the loop is entered
StartPass(kind, found, loc) ==
    /\ CanStartPass
    /\ budget' = [budget EXCEPT !.passes = @ + 1, ![kind] = @ + 1]
    /\ \E ok \in Outcomes :
         tasks' = IF ok /\ found # {}
                  THEN tasks (+) One([Task(kind, "loop") EXCEPT !.todo = SeqOf(found), !.loc = loc])
                  ELSE tasks

\* ReminderService.start()
Start ==
    /\ budget.starts < MaxStarts
    /\ budget' = [budget EXCEPT !.starts = @ + 1]
    /\ cronTasks' = cronTasks \o << [loop |-> "time", running |-> TRUE],
                                   [loop |-> "location", running |-> TRUE] >>
    /\ timeCronJob' = Len(cronTasks) + 1
    /\ locationCronJob' = Len(cronTasks) + 2
    /\ UNCHANGED <<now, db, owner, activeReminders, tasks, timers, calls, faults, hist>>

\* a stop() that also cancels the pending timeouts
StopClearingTimers ==
    /\ cronTasks' = [i \in DOMAIN cronTasks |->
                       IF i \in {timeCronJob, locationCronJob}
                       THEN [cronTasks[i] EXCEPT !.running = FALSE]
                       ELSE cronTasks[i]]
    /\ timeCronJob' = Null
    /\ locationCronJob' = Null
    /\ activeReminders' = {}
    /\ timers' = EmptyBag
    /\ hist' = [hist EXCEPT !.stopped = @ \cup BagToSet(timers)]
    /\ UNCHANGED <<now, db, owner, tasks, calls, faults, budget>>

\* ReminderService.stop()
Stop ==
    /\ cronTasks' = [i \in DOMAIN cronTasks |->
                       IF i \in {timeCronJob, locationCronJob}
                       THEN [cronTasks[i] EXCEPT !.running = FALSE]
                       ELSE cronTasks[i]]
    /\ timeCronJob' = Null
    /\ locationCronJob' = Null
    /\ activeReminders' = {}
    /\ hist' = [hist EXCEPT !.stopped = @ \cup BagToSet(timers)]
    /\ UNCHANGED <<now, db, owner, tasks, timers, calls, faults, budget>>

\* a node-cron task of the loop fires
CronFires(loop) == \E i \in DOMAIN cronTasks : cronTasks[i].loop = loop /\ cronTasks[i].running

\* the time loop's cron callback: checkTimeBasedReminders()
TimeCronTick ==
    /\ CronFires("time")
    /\ StartPass("time", DueReminders, Null)
    /\ UNCHANGED <<now, db, owner, activeReminders, timeCronJob, locationCronJob,
                   cronTasks, timers, calls, faults, hist>>

\* the location loop's cron callback: checkLocationBasedReminders()
LocationCronTick ==
    /\ CronFires("location")
    /\ StartPass("location", LocationReminders, owner.currentLocation)
    /\ UNCHANGED <<now, db, owner, activeReminders, timeCronJob, locationCronJob,
                   cronTasks, timers, calls, faults, hist>>

\* a manual time check that also schedules a cron task for the loop
TriggerTimeCheckScheduling ==
    /\ StartPass("time", DueReminders, Null)
    /\ cronTasks' = Append(cronTasks, [loop |-> "time", running |-> TRUE])
    /\ timeCronJob' = Len(cronTasks) + 1
    /\ UNCHANGED <<now, db, owner, activeReminders, locationCronJob,
                   timers, calls, faults, hist>>

\* ReminderService.triggerTimeCheck()
TriggerTimeCheck ==
    /\ StartPass("time", DueReminders, Null)
    /\ UNCHANGED <<now, db, owner, activeReminders, timeCronJob, locationCronJob,
                   cronTasks, timers, calls, faults, hist>>

\* ReminderService.triggerLocationCheck()
TriggerLocationCheck ==
    /\ StartPass("location", LocationReminders, owner.currentLocation)
    /\ UNCHANGED <<now, db, owner, activeReminders, timeCronJob, locationCronJob,
                   cronTasks, timers, calls, faults, hist>>

\* ReminderService.handleLocationUpdate(userId, {latitude, longitude})
handleLocationUpdate(loc) ==
    /\ StartPass("update", UpdateReminders, loc)
    /\ UNCHANGED <<now, db, owner, activeReminders, timeCronJob, locationCronJob,
                   cronTasks, timers, calls, faults, hist>>

\* the owner reports a position
LocationUpdate == \E loc \in Locations : handleLocationUpdate(loc)

\* time passes
AdvanceClock ==
    /\ now < MaxNow
    /\ now' = now + 1
    /\ UNCHANGED <<db, owner, activeReminders, timeCronJob, locationCronJob,
                   cronTasks, tasks, timers, calls, faults, hist, budget>>

\* ------------------------------------------------------ processReminder
TypeOf(t) == IF t.kind = "time" THEN "time" ELSE "location"

\* the for-of loop goes on with the remaining candidates, or the pass returns
Continue(t, rest) ==
    IF rest = << >>
    THEN End(t)
    ELSE Become(t, [Task(t.kind, "loop") EXCEPT !.todo = rest, !.loc = t.loc])

\* processReminder(reminder, triggerType) is entered for the head candidate:
\* sendReminderEmail catches a failed send; the call is made only for an
\* owner with a Twilio number.
EnterProcess(t, r) ==
    /\ \E sent \in Outcomes :
         hist' = [hist EXCEPT !.emails = IF sent THEN Bump(@, <<TypeOf(t), r>>) ELSE @]
    /\ Become(t, [t EXCEPT !.id = r,
                           !.pc = IF owner.twilioPhoneNumber THEN "call_find" ELSE "finish"])

\* a caller that an exception inside processReminder leaves: the reservation
\* is released, the timer armed, and the remaining candidates are dropped
AfterProcessAborting(t) ==
    LET key == reminderKey(TypeOf(t), Head(t.todo)) IN
    /\ activeReminders' = IF t.kind = "time" THEN activeReminders \ {key} ELSE activeReminders
    /\ timers' = IF t.kind = "update"
                 THEN timers (+) One(Timer("grace", Head(t.todo), Null, key))
                 ELSE timers
    /\ End(t)

\* what follows processReminder in the caller: the time pass releases its
\* reservation (finally), handleLocationUpdate arms the 5 minute timer, the
\* location pass does nothing.
AfterProcess(t) ==
    LET key == reminderKey(TypeOf(t), Head(t.todo)) IN
    /\ activeReminders' = IF t.kind = "time" THEN activeReminders \ {key} ELSE activeReminders
    /\ timers' = IF t.kind = "update"
                 THEN timers (+) One(Timer("grace", Head(t.todo), Null, key))
                 ELSE timers
    /\ Continue(t, Tail(t.todo))

\* checkTimeBasedReminders, one iteration of the loop up to the first await
TimeLoop ==
    \E t \in Running :
      /\ t.kind = "time" /\ t.pc = "loop"
      /\ LET r == Head(t.todo)
             key == reminderKey("time", r) IN
         IF key \in activeReminders
         THEN /\ Continue(t, Tail(t.todo))
              /\ UNCHANGED <<activeReminders, hist>>
         ELSE /\ activeReminders' = activeReminders \cup {key}
              /\ EnterProcess(t, r)
      /\ UNCHANGED <<now, db, owner, timeCronJob, locationCronJob, cronTasks,
                     timers, calls, faults, budget>>

\* checkLocationBasedReminders, one iteration of the loop up to the first await
LocationLoop ==
    \E t \in Running :
      /\ t.kind = "location" /\ t.pc = "loop"
      /\ LET r == Head(t.todo) IN
         IF isUserNearReminder(t, r)
         THEN EnterProcess(t, r)
         ELSE /\ Continue(t, Tail(t.todo))
              /\ UNCHANGED hist
      /\ UNCHANGED <<now, db, owner, activeReminders, timeCronJob, locationCronJob,
                     cronTasks, timers, calls, faults, budget>>

\* handleLocationUpdate, one iteration of the loop up to the first await
UpdateLoop ==
    \E t \in Running :
      /\ t.kind = "update" /\ t.pc = "loop"
      /\ LET r == Head(t.todo)
             key == reminderKey("location", r) IN
         IF calculateDistance(t.loc, db[r].coordinates) <= NearMeters /\ key \notin activeReminders
         THEN /\ activeReminders' = activeReminders \cup {key}
              /\ EnterProcess(t, r)
         ELSE /\ Continue(t, Tail(t.todo))
              /\ UNCHANGED <<activeReminders, hist>>
      /\ UNCHANGED <<now, db, owner, timeCronJob, locationCronJob, cronTasks,
                     timers, calls, faults, budget>>

\* a processReminder that marks both triggers whatever the trigger type
NotifiedFieldsBoth(type, at) ==
    [timeNotificationSent |-> TRUE, timeNotificationSentAt |-> at,
     locationNotificationSent |-> TRUE, locationNotificationSentAt |-> at]

\* the fields processReminder marks for its trigger type
NotifiedFields(type, at) ==
    IF type = "time"
    THEN [timeNotificationSent |-> TRUE, timeNotificationSentAt |-> at]
    ELSE [locationNotificationSent |-> TRUE, locationNotificationSentAt |-> at]

\* processReminder after the call: emitNotification (which catches its own
\* errors), the notified fields, reminder.save(); a failed save is caught.
Finish ==
    \E t \in Running :
      /\ t.pc = "finish"
      /\ LET k == <<TypeOf(t), t.id>> IN
         \E saved \in Outcomes :
           /\ db' = IF saved THEN Save(t.id, NotifiedFields(TypeOf(t), now)) ELSE db
           /\ hist' = [hist EXCEPT !.pushes = Bump(@, k),
                                   !.sets = IF saved THEN Bump(@, k) ELSE @]
      /\ AfterProcess(t)
      /\ UNCHANGED <<now, owner, timeCronJob, locationCronJob, cronTasks, calls,
                     faults, budget>>

\* the 5 minute timer of handleLocationUpdate: activeReminders.delete(key)
GraceTimerFires ==
    \E m \in BagToSet(timers) :
      /\ m.kind = "grace"
      /\ timers' = timers (-) One(m)
      /\ activeReminders' = activeReminders \ {m.key}
      /\ UNCHANGED <<now, db, owner, timeCronJob, locationCronJob, cronTasks,
                     tasks, calls, faults, hist, budget>>

\* a reset that also clears the call tracking of the reminder
ResetFieldsAndCalls(type) ==
    IF type = "time"
    THEN [timeNotificationSent |-> FALSE, timeNotificationSentAt |-> Null,
          callAttempts |-> 0, callStatus |-> "not_called"]
    ELSE [locationNotificationSent |-> FALSE, locationNotificationSentAt |-> Null,
          callAttempts |-> 0, callStatus |-> "not_called"]

\* ReminderService.resetNotificationStatus(reminderId, triggerType)
ResetFields(type) ==
    IF type = "time"
    THEN [timeNotificationSent |-> FALSE, timeNotificationSentAt |-> Null]
    ELSE [locationNotificationSent |-> FALSE, locationNotificationSentAt |-> Null]

resetNotificationStatus ==
    \E r \in Ids, type \in TriggerTypes :
      /\ budget.resets < MaxResets
      /\ ~db[r].isDeleted
      /\ budget' = [budget EXCEPT !.resets = @ + 1]
      /\ db' = Save(r, ResetFields(type))
      /\ hist' = [hist EXCEPT !.resets = Bump(@, <<type, r>>)]
      /\ UNCHANGED <<now, owner, activeReminders, timeCronJob, locationCronJob,
                     cronTasks, tasks, timers, calls, faults>>

\* ------------------------------------------------------ makeReminderCall
\* Reminder.findById / findOne: the pre(/^find/) hook hides soft-deleted documents
Found(id) == id \in Ids /\ ~db[id].isDeleted

\* makeReminderCall returns (or is left by its catch block having resolved)
AfterCall(t) ==
    IF t.kind = "retry"
    THEN End(t)
    ELSE Become(t, [t EXCEPT !.pc = "finish", !.att = Null, !.sid = Null])

\* a guard that lets a third attempt through
AttemptsExceeded(attempts) == attempts > MaxAttempts

\* the attempts guard of makeReminderCall
AttemptsExhausted(attempts) == attempts >= MaxAttempts

\* const reminder = await Reminder.findById(reminderData.id), then the guard
CallFind ==
    \E t \in Running :
      /\ t.pc = "call_find"
      /\ \E ok \in Outcomes :
           IF ~ok THEN Become(t, [t EXCEPT !.pc = "call_catch"]) /\ UNCHANGED hist
           ELSE IF ~Found(t.id) THEN AfterCall(t) /\ UNCHANGED hist
           ELSE IF AttemptsExhausted(db[t.id].callAttempts)
                THEN AfterCall(t) /\ hist' = [hist EXCEPT !.refused = Bump(@, t.id)]
           ELSE /\ Become(t, [t EXCEPT !.pc = "call_mark", !.att = db[t.id].callAttempts])
                /\ UNCHANGED hist
      /\ UNCHANGED <<now, db, owner, activeReminders, timeCronJob, locationCronJob,
                     cronTasks, timers, calls, faults, budget>>

\* await Reminder.findByIdAndUpdate(id, {callStatus: 'calling', callAttempts + 1, ...})
CallMark ==
    \E t \in Running :
      /\ t.pc = "call_mark"
      /\ \E ok \in Outcomes :
           IF ok
           THEN /\ db' = Update(t.id, [callStatus |-> "calling",
                                       callAttempts |-> t.att + 1,
                                       lastCallAttempt |-> now])
                /\ Become(t, [t EXCEPT !.pc = "call_place"])
           ELSE /\ db' = db
                /\ Become(t, [t EXCEPT !.pc = "call_catch"])
      /\ UNCHANGED <<now, owner, activeReminders, timeCronJob, locationCronJob,
                     cronTasks, timers, calls, faults, hist, budget>>

\* const callResult = await makePhoneCall({...})
CallPlace ==
    \E t \in Running :
      /\ t.pc = "call_place"
      /\ \E ok \in Outcomes :
           IF ok
           THEN /\ calls' = Append(calls, [r |-> t.id, status |-> "ringing", duration |-> Null])
                /\ hist' = [hist EXCEPT !.placed = Bump(@, t.id)]
                /\ Become(t, [t EXCEPT !.pc = "call_sid", !.sid = Len(calls) + 1])
           ELSE /\ UNCHANGED <<calls, hist>>
                /\ Become(t, [t EXCEPT !.pc = "call_catch"])
      /\ UNCHANGED <<now, db, owner, activeReminders, timeCronJob, locationCronJob,
                     cronTasks, timers, faults, budget>>

\* await Reminder.findByIdAndUpdate(id, {callSid}), then setTimeout(checkCallStatus, 35000)
CallSid ==
    \E t \in Running :
      /\ t.pc = "call_sid"
      /\ \E ok \in Outcomes :
           IF ok
           THEN /\ db' = Update(t.id, [callSid |-> t.sid])
                /\ timers' = timers (+) One(Timer("poll", t.id, t.sid, NoKey))
                /\ AfterCall(t)
           ELSE /\ UNCHANGED <<db, timers>>
                /\ Become(t, [t EXCEPT !.pc = "call_catch"])
      /\ UNCHANGED <<now, owner, activeReminders, timeCronJob, locationCronJob,
                     cronTasks, calls, faults, hist, budget>>

\* a catch block that arms a retry after recording the failure
CallCatchRetrying ==
    \E t \in Running :
      /\ t.pc = "call_catch"
      /\ \E ok \in Outcomes :
           IF ok
           THEN /\ db' = Update(t.id, [callStatus |-> "failed", lastCallAttempt |-> now])
                /\ AfterCall(t)
                /\ timers' = timers (+) One(Timer("retry_poll", t.id, Null, NoKey))
                /\ UNCHANGED activeReminders
           ELSE /\ db' = db
                /\ IF t.kind = "retry"
                   THEN End(t) /\ UNCHANGED <<activeReminders, timers>>
                   ELSE AfterProcess(t)
      /\ UNCHANGED <<now, owner, timeCronJob, locationCronJob, cronTasks, calls,
                     faults, hist, budget>>

\* the catch block of makeReminderCall: findByIdAndUpdate(id, {callStatus: 'failed', ...});
\* when that write throws too, the error leaves makeReminderCall and is caught by
\* processReminder, which then returns without the push and without the save.
CallCatch ==
    \E t \in Running :
      /\ t.pc = "call_catch"
      /\ \E ok \in Outcomes :
           IF ok
           THEN /\ db' = Update(t.id, [callStatus |-> "failed", lastCallAttempt |-> now])
                /\ AfterCall(t)
                /\ UNCHANGED <<activeReminders, timers>>
           ELSE /\ db' = db
                /\ IF t.kind = "retry"
                   THEN End(t) /\ UNCHANGED <<activeReminders, timers>>
                   ELSE AfterProcess(t)
      /\ UNCHANGED <<now, owner, timeCronJob, locationCronJob, cronTasks, calls,
                     faults, hist, budget>>

\* ---------------------------------------------------- the call provider
\* The statuses the provider reports for a call.  A placed call is "ringing"
\* until it is observed to have ended; how it ends is fixed by the first
\* report that observes it, and every later report agrees with it.
InProgress  == {"ringing", "in-progress"}
FinalStatus == {"completed", "busy", "no-answer", "failed"}
Durations   == {0, 12}

Outcome(st, d) == [status |-> st, duration |-> IF st = "completed" THEN d ELSE Null]

\* what a poll of call c can return now: its final state, or, while it has
\* not been seen to end, that it is in progress or any way it may have ended
Observable(c) ==
    IF c.status \in FinalStatus
    THEN {Outcome(c.status, c.duration)}
    ELSE {Outcome(st, 0) : st \in InProgress}
           \cup {Outcome(st, d) : st \in FinalStatus, d \in Durations}

\* what a callback for call c can carry: the provider posts one callback per
\* subscribed event (initiated, ringing, answered, completed) and a callback
\* can be delivered late, so also a status the call has left
Postable(c) ==
    Observable(c)
      \cup {Outcome("ringing", 0)}
      \cup (IF c.status = "completed" /\ c.duration > 0
            THEN {Outcome("in-progress", 0)} ELSE {})

\* the provider's record of call sid after a report carrying o
Observed(sid, o) ==
    IF o.status \in FinalStatus
    THEN [calls EXCEPT ![sid] = [@ EXCEPT !.status = o.status, !.duration = o.duration]]
    ELSE calls

\* ------------------------------------------------- status classification
\* handleTwilioCallStatus: the switch on CallStatus
WebhookClassify(CallStatus, CallDuration, callAttempts) ==
    CASE CallStatus = "completed" ->
           IF CallDuration # Null /\ CallDuration > 0
           THEN [newStatus |-> "completed", shouldRetry |-> FALSE]
           ELSE [newStatus |-> "no_answer", shouldRetry |-> callAttempts < 2]
      [] CallStatus \in {"failed", "busy"} ->
           [newStatus |-> CallStatus, shouldRetry |-> callAttempts < 2]
      [] CallStatus = "no-answer" ->
           [newStatus |-> "no_answer", shouldRetry |-> callAttempts < 2]
      [] OTHER ->
           [newStatus |-> "failed", shouldRetry |-> callAttempts < 2]

\* a poll that takes every completed call for an answered one
PollClassifyAnswered(status, duration, callAttempts) ==
    IF status = "completed"
    THEN [newStatus |-> "completed", shouldRetry |-> FALSE]
    ELSE WebhookClassify(status, duration, callAttempts)

\* checkCallStatus: the switch on callStatus.status
PollClassify(status, duration, callAttempts) ==
    CASE status = "completed" ->
           IF duration # Null /\ duration > 0
           THEN [newStatus |-> "completed", shouldRetry |-> FALSE]
           ELSE [newStatus |-> "no_answer", shouldRetry |-> callAttempts < 2]
      [] status \in {"failed", "busy"} ->
           [newStatus |-> status, shouldRetry |-> callAttempts < 2]
      [] status = "no-answer" ->
           [newStatus |-> "no_answer", shouldRetry |-> callAttempts < 2]
      [] OTHER ->
           [newStatus |-> "failed", shouldRetry |-> callAttempts < 2]

\* --------------------------------------------------------------- webhook
\* Reminder.findOne({ callSid: CallSid })
ByCallSid(sid) == { r \in Ids : Found(r) /\ db[r].callSid = sid }

\* POST /api/webhooks/twilio/call-status arrives and the reminder is looked up;
\* an unknown call sid is answered 200, a failed lookup 500 (the catch block)
StatusCallback ==
    \E sid \in DOMAIN calls :
      /\ budget.callbacks < MaxCallbacks
      /\ budget' = [budget EXCEPT !.callbacks = @ + 1]
      /\ \E o \in Postable(calls[sid]), ok \in Outcomes :
           LET hit == ByCallSid(sid) IN
           /\ calls' = Observed(sid, o)
           /\ hist' = [hist EXCEPT !.replied =
                         IF ~ok THEN @ \cup {500} ELSE IF hit = {} THEN @ \cup {200} ELSE @]
           /\ IF ok /\ hit # {}
              THEN LET r == CHOOSE x \in hit : \A y \in hit : x <= y
                       c == WebhookClassify(o.status, o.duration, db[r].callAttempts) IN
                   tasks' = tasks (+) One([Task("webhook", "update") EXCEPT
                                             !.id = r, !.sid = sid,
                                             !.status = o.status, !.dur = o.duration,
                                             !.att = db[r].callAttempts,
                                             !.newStatus = c.newStatus,
                                             !.retry = c.shouldRetry])
              ELSE tasks' = tasks
      /\ UNCHANGED <<now, db, owner, activeReminders, timeCronJob, locationCronJob,
                     cronTasks, timers, faults>>

\* the webhook's findByIdAndUpdate(reminder._id, {callStatus: newStatus}), the
\* retry timer it arms and res.status(200); a failed update is answered 500
WebhookUpdate ==
    \E t \in Running :
      /\ t.kind = "webhook" /\ t.pc = "update"
      /\ \E ok \in Outcomes :
           IF ok
           THEN /\ db' = Update(t.id, [callStatus |-> t.newStatus])
                /\ timers' = IF t.retry
                             THEN timers (+) One(Timer("retry_webhook", t.id, Null, NoKey))
                             ELSE timers
                /\ hist' = [hist EXCEPT !.retries = IF t.retry THEN Bump(@, t.id) ELSE @,
                                        !.replied = @ \cup {200}]
           ELSE /\ UNCHANGED <<db, timers>>
                /\ hist' = [hist EXCEPT !.replied = @ \cup {500}]
      /\ End(t)
      /\ UNCHANGED <<now, owner, activeReminders, timeCronJob, locationCronJob,
                     cronTasks, calls, faults, budget>>

\* ------------------------------------------------------ checkCallStatus
\* the 35 s timer of makeReminderCall fires: checkCallStatus(reminder._id, sid)
\* starts with getCallStatus(callSid)
PollTimerFires ==
    \E m \in BagToSet(timers) :
      /\ m.kind = "poll"
      /\ timers' = timers (-) One(m)
      /\ \E o \in Observable(calls[m.sid]), ok \in Outcomes :
           /\ calls' = Observed(m.sid, o)
           /\ tasks' = IF ok
                       THEN tasks (+) One([Task("poll", "find") EXCEPT
                                             !.id = m.r, !.sid = m.sid,
                                             !.status = o.status, !.dur = o.duration])
                       ELSE tasks
      /\ UNCHANGED <<now, db, owner, activeReminders, timeCronJob, locationCronJob,
                     cronTasks, faults, hist, budget>>

\* const reminder = await Reminder.findById(reminderId), then the switch
PollFind ==
    \E t \in Running :
      /\ t.kind = "poll" /\ t.pc = "find"
      /\ \E ok \in Outcomes :
           IF ok /\ Found(t.id)
           THEN LET c == PollClassify(t.status, t.dur, db[t.id].callAttempts) IN
                Become(t, [t EXCEPT !.pc = "update", !.att = db[t.id].callAttempts,
                                    !.newStatus = c.newStatus, !.retry = c.shouldRetry])
           ELSE End(t)
      /\ UNCHANGED <<now, db, owner, activeReminders, timeCronJob, locationCronJob,
                     cronTasks, timers, calls, faults, hist, budget>>

\* checkCallStatus: findByIdAndUpdate(reminderId, {callStatus: newStatus}) and
\* the retry timer it arms
PollUpdate ==
    \E t \in Running :
      /\ t.kind = "poll" /\ t.pc = "update"
      /\ \E ok \in Outcomes :
           IF ok
           THEN /\ db' = Update(t.id, [callStatus |-> t.newStatus])
                /\ timers' = IF t.retry
                             THEN timers (+) One(Timer("retry_poll", t.id, Null, NoKey))
                             ELSE timers
                /\ hist' = IF t.retry THEN [hist EXCEPT !.retries = Bump(@, t.id)] ELSE hist
           ELSE UNCHANGED <<db, timers, hist>>
      /\ End(t)
      /\ UNCHANGED <<now, owner, activeReminders, timeCronJob, locationCronJob,
                     cronTasks, calls, faults, budget>>

\* ---------------------------------------------------------- retry timers
\* the id the retry callback passes as reminderData.id: checkCallStatus builds
\* {id: reminder._id, ...}; the webhook builds {reminderId: reminder._id, ...},
\* which leaves reminderData.id undefined
RetryId(m) == IF m.kind = "retry_poll" THEN m.r ELSE Null

\* a retry that runs the whole trigger flow for the reminder again
RetryTimerRunsPass ==
    \E m \in BagToSet(timers) :
      /\ m.kind \in {"retry_poll", "retry_webhook"}
      /\ timers' = timers (-) One(m)
      /\ tasks' = tasks (+) One([Task("time", "loop") EXCEPT !.todo = <<m.r>>])
      /\ hist' = [hist EXCEPT !.redials = Bump(@, m.r)]
      /\ UNCHANGED <<now, db, owner, activeReminders, timeCronJob, locationCronJob,
                     cronTasks, calls, faults, budget>>

\* a 60 s retry timer fires: User.findById, then makeReminderCall(user, reminderData)
RetryTimerFires ==
    \E m \in BagToSet(timers) :
      /\ m.kind \in {"retry_poll", "retry_webhook"}
      /\ timers' = timers (-) One(m)
      /\ \E ok \in Outcomes :
           tasks' = IF ok
                    THEN tasks (+) One([Task("retry", "call_find") EXCEPT
                                          !.rem = m.r, !.id = RetryId(m)])
                    ELSE tasks
      /\ hist' = [hist EXCEPT !.redials = Bump(@, m.r)]
      /\ UNCHANGED <<now, db, owner, activeReminders, timeCronJob, locationCronJob,
                     cronTasks, calls, faults, budget>>

\* ---------------------------------------------------------------- specs
\* The state after "new ReminderService()", over a store that holds one
\* reminder of one owner: the reminder is hybrid (dateTime = DueAt) or
\* location-only (dateTime = Null); the owner has a Twilio number or not and
\* a stored currentLocation or none.
Constructed(dateTimes, phones, locs, failing) ==
    /\ now = 0
    /\ \E dt \in dateTimes : db = [r \in {1} |-> NewReminder(dt)]
    /\ \E phone \in phones, loc \in locs :
         owner = [twilioPhoneNumber |-> phone, currentLocation |-> loc]
    /\ activeReminders = {}
    /\ timeCronJob = Null
    /\ locationCronJob = Null
    /\ cronTasks = << >>
    /\ tasks = EmptyBag
    /\ timers = EmptyBag
    /\ calls = << >>
    /\ faults \in failing
    /\ hist = NoHist
    /\ budget = NoBudget

\* the same after one call of start(), at time t0
Started(t0, dateTimes, phones, locs, failing) ==
    /\ now = t0
    /\ \E dt \in dateTimes : db = [r \in {1} |-> NewReminder(dt)]
    /\ \E phone \in phones, loc \in locs :
         owner = [twilioPhoneNumber |-> phone, currentLocation |-> loc]
    /\ activeReminders = {}
    /\ timeCronJob = 1
    /\ locationCronJob = 2
    /\ cronTasks = << [loop |-> "time", running |-> TRUE],
                      [loop |-> "location", running |-> TRUE] >>
    /\ tasks = EmptyBag
    /\ timers = EmptyBag
    /\ calls = << >>
    /\ faults \in failing
    /\ hist = NoHist
    /\ budget = [NoBudget EXCEPT !.starts = 1]

\* the steps of a pass, of processReminder and of the call dispatch
Processing ==
    \/ TimeLoop
    \/ LocationLoop
    \/ UpdateLoop
    \/ CallFind
    \/ CallMark
    \/ CallPlace
    \/ CallSid
    \/ CallCatch
    \/ Finish
    \/ GraceTimerFires

\* what starts a pass
Triggers ==
    \/ TimeCronTick
    \/ LocationCronTick
    \/ TriggerTimeCheck
    \/ TriggerLocationCheck
    \/ LocationUpdate

\* The notification engine while the scheduler runs: ticks of both loops,
\* manual triggers, location updates and administrative resets, with every
\* awaited operation allowed to fail.
Init == Started(0, {Null, DueAt}, {TRUE}, {Null} \cup Locations, {TRUE})

Next ==
    \/ Triggers
    \/ Processing
    \/ AdvanceClock
    \/ resetNotificationStatus

Spec == Init /\ [][Next]_vars

\* what reports on a placed call and what follows a report
Reporting ==
    \/ StatusCallback
    \/ WebhookUpdate
    \/ PollTimerFires
    \/ PollFind
    \/ PollUpdate
    \/ RetryTimerFires

\* the first tick of a loop after start()
FirstTimeTick == budget.time = 0 /\ TimeCronTick

FirstLocationTick == budget.location = 0 /\ LocationCronTick

\* the call dispatch step
Dispatch ==
    \/ CallFind
    \/ CallMark
    \/ CallPlace
    \/ CallSid

\* The call status tracker: the reminder is due and the first tick of the
\* time loop fires it; its calls are then reported by callbacks and polls and
\* redialled by the retry timers.  No operation fails.
InitCall == Started(DueAt, {DueAt}, {TRUE}, {NearMeters}, {FALSE})

NextCall ==
    \/ FirstTimeTick
    \/ TimeLoop
    \/ Dispatch
    \/ Finish
    \/ Reporting

SpecCall == InitCall /\ [][NextCall]_vars

\* A hybrid reminder fired by the first tick of each loop, so that two
\* dispatches, their polls and their retries overlap.  No operation fails and
\* no callback is delivered.
Polling ==
    \/ PollTimerFires
    \/ PollFind
    \/ PollUpdate
    \/ RetryTimerFires

NextDial ==
    \/ FirstTimeTick
    \/ FirstLocationTick
    \/ TimeLoop
    \/ LocationLoop
    \/ Dispatch
    \/ Finish
    \/ Polling

SpecDial == InitCall /\ [][NextDial]_vars

\* The scheduler: start(), stop() and the ticks of the cron tasks, over an
\* owner without a Twilio number, from the state after construction.
InitSched == Constructed({DueAt}, {FALSE}, {NearMeters}, {FALSE})

NextSched ==
    \/ Start
    \/ Stop
    \/ TimeCronTick
    \/ LocationCronTick
    \/ AdvanceClock
    \/ TimeLoop
    \/ LocationLoop
    \/ Finish

SpecSched == InitSched /\ [][NextSched]_vars

\* ------------------------------------------------------------ properties
\* task t takes the step
Moved(t) == CopiesIn(t, tasks') < CopiesIn(t, tasks)

Flag(type, r) ==
    IF type = "time" THEN db[r].timeNotificationSent ELSE db[r].locationNotificationSent

\* C1: for every reminder and trigger type the notified flag is persisted once:
\* it is written at most one time more than the administrative reset was
\* invoked for it, and while no reset has been invoked a persisted flag is true.
C1_NotifiedOnce ==
    \A type \in TriggerTypes, r \in Ids :
      LET k == <<type, r>> IN
      /\ hist.sets[k] <= 1 + hist.resets[k]
      /\ (hist.sets[k] > 0 /\ hist.resets[k] = 0) => Flag(type, r)

\* C2: absent an administrative reset, at most one e-mail and at most one push
\* notification are dispatched for a reminder and trigger type.
C2_OneEmailOnePush ==
    \A k \in TriggerTypes \X Ids :
      hist.resets[k] = 0 => (hist.emails[k] <= 1 /\ hist.pushes[k] <= 1)

TimeFields(r) == <<db[r].timeNotificationSent, db[r].timeNotificationSentAt>>

LocationFields(r) == <<db[r].locationNotificationSent, db[r].locationNotificationSentAt>>

\* C3: the two triggers of a reminder are independent: no step of a pass that
\* processes the reminder for the time trigger changes the location flag or
\* its timestamp, no step of a pass that processes it for the location trigger
\* changes the time flag or its timestamp, also while the other trigger's
\* processing is in progress, and the save of a trigger sets that trigger's flag.
C3_TriggerIndependence ==
    [][\A t \in Running :
         (Moved(t) /\ t.kind \in {"time", "location", "update"}) =>
           \A r \in Ids :
             /\ TypeOf(t) = "time" => LocationFields(r)' = LocationFields(r)
             /\ TypeOf(t) = "location" => TimeFields(r)' = TimeFields(r)
             /\ hist'.sets[<<TypeOf(t), r>>] # hist.sets[<<TypeOf(t), r>>]
                  => Flag(TypeOf(t), r)'
      ]_vars

\* the time trigger has been persisted while the location trigger's
\* processing of the same reminder is still before its save
C3_TimeSavedDuringLocation ==
    \E t \in Running :
      /\ t.kind = "location" /\ t.pc = "finish"
      /\ db[t.id].timeNotificationSent
      /\ ~db[t.id].locationNotificationSent
      /\ hist.sets[<<"time", t.id>>] = 1

\* the dispatch tasks between the guard and the end of makeReminderCall
Dialling == { t \in Running : t.pc \in {"call_mark", "call_place", "call_sid"} }

\* C4: callAttempts stays within 0..2, a dispatch that passed the guard read a
\* value below 2, and a dispatch step that finds callAttempts = 2 places no
\* call and changes no field of the reminder.
C4_AttemptsBounded ==
    /\ [](\A r \in Ids : db[r].callAttempts \in 0..2)
    /\ [](\A t \in Dialling : t.att \in 0..1)
    /\ [][\A t \in Running :
            (Moved(t) /\ t.pc = "call_find" /\ Found(t.id) /\ db[t.id].callAttempts = 2)
              => /\ db' = db
                 /\ calls' = calls
                 /\ timers' = timers
                 /\ Dialling' \subseteq Dialling
         ]_vars

\* a dispatch found the budget used up after two calls had been placed
C4_ThirdDispatchRefused ==
    \E r \in Ids :
      /\ hist.refused[r] > 0
      /\ hist.placed[r] = 2
      /\ db[r].callAttempts = 2

\* the steps of makeReminderCall, its catch block included
CallSteps == {"call_find", "call_mark", "call_place", "call_sid", "call_catch"}

\* C5: the channels are isolated: whatever fails inside the call step of
\* processReminder (the lookup, the placement, the write that records a failed
\* call), the pass that is processing the reminder goes on, within the call
\* step or to the push notification and the save of the notified flag.
C5_ChannelIsolation ==
    [][\A t \in Running :
         (Moved(t) /\ t.kind \in {"time", "location", "update"} /\ t.pc \in CallSteps) =>
           \E u \in Running' :
             /\ u.kind = t.kind /\ u.id = t.id
             /\ u.pc \in CallSteps \cup {"finish"}
             /\ tasks' = (tasks (-) One(t)) (+) One(u)
      ]_vars

\* the status reports in progress: callbacks and polls
Reports == { t \in Running : t.kind \in {"webhook", "poll"} }

\* C6: a callback or poll result for a call that is not the reminder's current
\* call (its sid differs from the stored callSid) is ignored: the step that
\* would write its outcome leaves callStatus unchanged and arms no retry.
C6_StaleReportIgnored ==
    [][\A t \in Reports :
         (Moved(t) /\ t.pc = "update" /\ Found(t.id) /\ db[t.id].callSid # t.sid) =>
           /\ db'[t.id].callStatus = db[t.id].callStatus
           /\ hist'.retries = hist.retries
           /\ timers' = timers
      ]_vars

\* the classification table of a status report
Terminal(status, duration) ==
    IF status = "completed" /\ duration # Null /\ duration > 0 THEN "completed"
    ELSE IF status \in {"completed", "no-answer"} THEN "no_answer"
    ELSE IF status = "busy" THEN "busy"
    ELSE "failed"

\* C7: a status report is classified by the table (completed with a positive
\* duration: completed, no retry; completed with duration 0 or no-answer:
\* no_answer; busy: busy; failed or anything else: failed), a retry is armed for
\* a non-completed outcome iff callAttempts, as read for the report, is below 2,
\* and the callback path and the poll path classify every (status, duration,
\* callAttempts) alike.
C7_TerminalClassification ==
    /\ [](\A st \in InProgress \cup FinalStatus \cup {"queued", "canceled"},
             d \in Durations \cup {Null}, a \in 0..2 :
            WebhookClassify(st, d, a) = PollClassify(st, d, a))
    /\ [][\A t \in Reports :
            (Moved(t) /\ t.pc = "update" /\ Found(t.id)) =>
              LET outcome == Terminal(t.status, t.dur)
                  again   == outcome # "completed" /\ t.att < 2 IN
              /\ db'[t.id].callStatus = outcome
              /\ hist'.retries[t.id] = hist.retries[t.id] + (IF again THEN 1 ELSE 0)
         ]_vars

\* the callback path and the poll path have both reported the first attempt
\* unanswered and armed a retry each
C7_BothPathsRetry ==
    \E r \in Ids :
      /\ db[r].callStatus = "no_answer"
      /\ db[r].callAttempts = 1
      /\ \E m \in BagToSet(timers) : m.kind = "retry_webhook" /\ m.r = r
      /\ \E m \in BagToSet(timers) : m.kind = "retry_poll" /\ m.r = r

\* C8: the retry armed by a report on the first attempt runs the dispatch step
\* for that same reminder: when its timer has fired and the reminder still has
\* callAttempts below 2, the dispatch goes on to place the next call.
C8_RetryRedials ==
    [][\A t \in Running :
         (/\ Moved(t) /\ t.kind = "retry" /\ t.pc = "call_find"
          /\ Found(t.rem) /\ db[t.rem].callAttempts < 2) =>
           \E u \in Running' : u.kind = "retry" /\ u.pc = "call_mark" /\ u.id = t.rem
      ]_vars

\* the reminder's second attempt is its current call, it has ended without an
\* answer and callStatus records that outcome
SecondAttemptFailed(r) ==
    /\ db[r].callAttempts = 2
    /\ hist.placed[r] = 2
    /\ db[r].callSid = Len(calls)
    /\ calls[Len(calls)].status \in FinalStatus
    /\ db[r].callStatus = Terminal(calls[Len(calls)].status, calls[Len(calls)].duration)
    /\ db[r].callStatus # "completed"

\* C9: once callAttempts is 2 and the second attempt has been recorded as not
\* completed, no retry is armed, no call is placed and callStatus keeps that
\* outcome in every later step.
C9_TerminalOutcomeKept ==
    [][\A r \in Ids :
         SecondAttemptFailed(r) =>
           /\ db'[r].callStatus = db[r].callStatus
           /\ db'[r].callAttempts = 2
           /\ hist'.placed[r] = hist.placed[r]
           /\ hist'.retries[r] = hist.retries[r]
      ]_vars

\* the running cron tasks of a loop
Ticking(loop) == { i \in DOMAIN cronTasks : cronTasks[i].loop = loop /\ cronTasks[i].running }

\* C10: start() and stop() are idempotent: a started service has exactly one
\* running cron task per loop, however often start() was called, and after
\* stop() no cron task of either loop is running.
C10_StartStopIdempotent ==
    /\ timeCronJob # Null => Cardinality(Ticking("time")) = 1
    /\ locationCronJob # Null => Cardinality(Ticking("location")) = 1
    /\ timeCronJob = Null => Ticking("time") = {}
    /\ locationCronJob = Null => Ticking("location") = {}

\* ReminderService.getServiceStatus(): a loop is reported running when the
\* service holds a cron task for it and that task is running
getServiceStatus ==
    [ timeRunning     |-> timeCronJob # Null /\ cronTasks[timeCronJob].running,
      locationRunning |-> locationCronJob # Null /\ cronTasks[locationCronJob].running,
      activeRemindersCount |-> Cardinality(activeReminders) ]

\* C11: the status query reports a loop running exactly when a cron task of
\* that loop is running (will fire further ticks), and reports as in-flight
\* count the number of keys held in the dedup guard.
C11_StatusMatchesTimers ==
    /\ getServiceStatus.timeRunning <=> Ticking("time") # {}
    /\ getServiceStatus.locationRunning <=> Ticking("location") # {}
    /\ getServiceStatus.activeRemindersCount = Cardinality(activeReminders)

\* The manual run-once hooks, with the scheduler started or stopped: every
\* pass is started by triggerTimeCheck() or triggerLocationCheck().
InitManual == Constructed({DueAt}, {FALSE}, {NearMeters}, {FALSE})

NextManual ==
    \/ Start
    \/ Stop
    \/ TriggerTimeCheck
    \/ TriggerLocationCheck
    \/ AdvanceClock
    \/ TimeLoop
    \/ LocationLoop
    \/ Finish

SpecManual == InitManual /\ [][NextManual]_vars

\* C12: a manual run-once trigger starts exactly one evaluation pass of its
\* loop, with the scheduler started or stopped, and leaves the scheduler as it
\* was: no cron task is created, stopped or replaced and the reported
\* running/stopped status is the same before and after.
C12_ManualTriggerFrame ==
    [][budget'.passes # budget.passes =>
         /\ budget'.passes = budget.passes + 1
         /\ budget'.time + budget'.location = budget.time + budget.location + 1
         /\ BagCardinality(tasks') <= BagCardinality(tasks) + 1
         /\ UNCHANGED <<timeCronJob, locationCronJob, cronTasks>>
         /\ getServiceStatus'.timeRunning = getServiceStatus.timeRunning
         /\ getServiceStatus'.locationRunning = getServiceStatus.locationRunning
      ]_vars

\* a manual time check has fired the reminder while the scheduler had never
\* been started
C12_FiredWhileStopped ==
    /\ budget.starts = 0
    /\ timeCronJob = Null
    /\ budget.time = 1
    /\ hist.sets[<<"time", 1>>] = 1

\* The administrative reset of a hybrid reminder whose owner is called: ticks
\* of both loops, the call dispatch and resets interleave.  No operation fails.
NextReset ==
    \/ TimeCronTick
    \/ LocationCronTick
    \/ TimeLoop
    \/ LocationLoop
    \/ Dispatch
    \/ Finish
    \/ resetNotificationStatus

SpecReset == InitCall /\ [][NextReset]_vars

\* the fields of a reminder document a reset of the trigger type must leave alone
KeptByReset(type) ==
    DOMAIN NewReminder(Null) \
      (IF type = "time" THEN {"timeNotificationSent", "timeNotificationSentAt"}
                        ELSE {"locationNotificationSent", "locationNotificationSentAt"})

\* the reminder is a candidate of the next pass of the trigger type
Eligible(type, r) ==
    IF type = "time" THEN r \in DueReminders ELSE r \in LocationReminders

SoftDelete ==
    \E r \in Ids :
      /\ ~db[r].isDeleted
      /\ db' = [db EXCEPT ![r].isDeleted = TRUE]
      /\ UNCHANGED <<now, owner, activeReminders, timeCronJob, locationCronJob,
                     cronTasks, tasks, timers, calls, faults, hist, budget>>

\* A reminder that is soft-deleted at some moment while the first tick of each
\* loop and location updates evaluate it.  No operation fails.
InitDelete == Started(DueAt, {Null, DueAt}, {TRUE}, {NearMeters}, {FALSE})

NextDelete ==
    \/ FirstTimeTick
    \/ FirstLocationTick
    \/ LocationUpdate
    \/ TimeLoop
    \/ LocationLoop
    \/ UpdateLoop
    \/ Dispatch
    \/ Finish
    \/ GraceTimerFires
    \/ SoftDelete

SpecDelete == InitDelete /\ [][NextDelete]_vars

\* C14: a soft-deleted reminder is never fired: while it stays soft-deleted no
\* e-mail and no push is dispatched for it, no call is placed for it and its
\* notified flags and timestamps do not change.
C14_DeletedNeverFired ==
    [][\A r \in Ids :
         (db[r].isDeleted /\ db'[r].isDeleted) =>
           /\ \A type \in TriggerTypes :
                /\ hist'.emails[<<type, r>>] = hist.emails[<<type, r>>]
                /\ hist'.pushes[<<type, r>>] = hist.pushes[<<type, r>>]
                /\ hist'.sets[<<type, r>>] = hist.sets[<<type, r>>]
           /\ hist'.placed[r] = hist.placed[r]
           /\ TimeFields(r)' = TimeFields(r)
           /\ LocationFields(r)' = LocationFields(r)
      ]_vars

\* The location trigger: ticks of the location loop and location updates of
\* the owner, over a hybrid or location-only reminder and an owner whose stored
\* position is absent, on the equator, inside, on or outside the 100 m circle.
StoredLocations == {Null, 0, 65, NearMeters, 101, 1300}

InitLocate == Started(0, {Null, DueAt}, {FALSE}, StoredLocations, {FALSE})

NextLocate ==
    \/ LocationCronTick
    \/ LocationUpdate
    \/ LocationLoop
    \/ UpdateLoop
    \/ Finish
    \/ GraceTimerFires

SpecLocate == InitLocate /\ [][NextLocate]_vars

\* C15: a location update persists the reported position as the owner's most
\* recent location, which is what the next tick of the location loop reads.
C15_LocationPersisted ==
    [][\A loc \in Locations :
         handleLocationUpdate(loc) => owner'.currentLocation = loc
      ]_vars

\* the candidates of a pass
Candidates(t) == { t.todo[i] : i \in DOMAIN t.todo }

\* C16: the location trigger of a reminder does not depend on its time
\* trigger: when the owner reports a position within 100 m of a non-deleted
\* reminder that has coordinates and locationNotificationSent = false, the
\* update takes the reminder as a candidate of the location trigger, whether
\* or not it has a reminderDateTime and whatever timeNotificationSent is.
C16_HybridLocationTrigger ==
    [][\A loc \in Locations, r \in Ids :
         (/\ handleLocationUpdate(loc)
          /\ ~db[r].isDeleted
          /\ db[r].coordinates # Null
          /\ ~db[r].locationNotificationSent
          /\ calculateDistance(loc, db[r].coordinates) <= 100) =>
           \E t \in Running' :
             /\ t.kind = "update" /\ t.loc = loc
             /\ r \in Candidates(t)
             /\ CopiesIn(t, tasks') > CopiesIn(t, tasks)
      ]_vars

\* The webhook while the store may fail: the reminder is fired by the first
\* tick of the time loop, its calls are reported by callbacks and redialled
\* by the retry timers.
InitHook == Started(DueAt, {DueAt}, {TRUE}, {NearMeters}, {TRUE})

NextHook ==
    \/ FirstTimeTick
    \/ TimeLoop
    \/ Dispatch
    \/ CallCatch
    \/ Finish
    \/ StatusCallback
    \/ WebhookUpdate
    \/ RetryTimerFires

SpecHook == InitHook /\ [][NextHook]_vars

\* C17: the call-status webhook answers every request with 200, whatever
\* happens while it handles the request.
C17_WebhookAlways200 == hist.replied \subseteq {200}

\* the step of pass t on its head candidate enters processReminder
Enters(t) ==
    \E u \in Running' :
      /\ u.kind = t.kind /\ u.id = Head(t.todo)
      /\ u.pc \in {"call_find", "finish"}
      /\ tasks' = (tasks (-) One(t)) (+) One(u)

\* C18: a reminder is near its owner exactly when the distance between the
\* owner's position and the reminder's coordinates is at most 100 m, the
\* boundary included, and the periodic location pass and the location update
\* use this same predicate: a pass that holds a position of the owner
\* processes an unreserved candidate iff that distance is at most 100 m.
C18_NearPredicate ==
    [][\A t \in Running :
         (/\ Moved(t) /\ t.pc = "loop"
          /\ t.kind \in {"location", "update"}
          /\ t.loc # Null
          /\ t.kind = "update" => reminderKey("location", Head(t.todo)) \notin activeReminders) =>
           (Enters(t) <=> calculateDistance(t.loc, db[Head(t.todo)].coordinates) <= 100)
      ]_vars

\* the passes of a loop that are inside processReminder for reminder r
InProcess(loop, r) ==
    { t \in Running : t.kind = loop /\ t.id = r /\ t.pc \in CallSteps \cup {"finish"} }

\* C19: two overlapping passes of the same loop, the time loop or the location
\* loop, never both process the same reminder: at any moment at most one pass
\* of a loop is inside processReminder for a reminder.
C19_NoDoubleProcessing ==
    \A loop \in {"time", "location"}, r \in Ids :
      /\ Cardinality(InProcess(loop, r)) <= 1
      /\ \A t \in InProcess(loop, r) : CopiesIn(t, tasks) = 1

\* C20: the grace window of the location trigger: when the processing of a
\* reminder for the location trigger ends, its location key is held in the
\* dedup guard, and while the key is held no pass starts to process the
\* reminder for the location trigger.
C20_GraceWindow ==
    [][\A r \in Ids :
         LET key == reminderKey("location", r) IN
         /\ (\E t \in Running :
               Moved(t) /\ t.pc = "finish" /\ TypeOf(t) = "location" /\ t.id = r)
              => key \in activeReminders'
         /\ key \in activeReminders =>
              \A t \in Running :
                (Moved(t) /\ t.pc = "loop" /\ TypeOf(t) = "location" /\ Head(t.todo) = r)
                  => ~Enters(t)
      ]_vars

\* the most recent call placed for reminder r (0 when none was placed)
LastCall(r) ==
    LET placed == { sid \in DOMAIN calls : calls[sid].r = r } IN
    IF placed = {} THEN 0 ELSE CHOOSE sid \in placed : \A other \in placed : other <= sid

\* C21: a dispatch that succeeds sets callStatus to calling, writes the
\* callAttempts it read plus one and the attempt timestamp, and stores the
\* reference of the call it placed, so that whenever no dispatch of the
\* reminder is in progress the stored reference is that of the most recent
\* call placed for the reminder.
C21_DispatchStoresLatestCall ==
    /\ [][\A t \in Running :
            /\ (Moved(t) /\ t.pc = "call_mark") =>
                 /\ db'[t.id].callStatus = "calling"
                 /\ db'[t.id].callAttempts = t.att + 1
                 /\ db'[t.id].lastCallAttempt = now
            /\ (Moved(t) /\ t.pc = "call_sid") => db'[t.id].callSid = t.sid
         ]_vars
    /\ [](\A r \in Ids :
            (hist.placed[r] > 0 /\ ~\E t \in Dialling : t.id = r)
              => db[r].callSid = LastCall(r))

\* dispatch t is in its catch block because the placement of its call failed:
\* its write of callStatus = calling and of the incremented callAttempts is in
\* the store and it holds no call sid
PlacementFailed(t) ==
    /\ t.pc = "call_catch"
    /\ t.att # Null /\ t.sid = Null
    /\ Found(t.id)
    /\ db[t.id].callStatus = "calling"
    /\ db[t.id].callAttempts = t.att + 1

\* a retry timer for reminder r is armed in the step
RetryArmed(r) ==
    \E m \in BagToSet(timers') :
      /\ m.kind \in {"retry_poll", "retry_webhook"} /\ m.r = r
      /\ CopiesIn(m, timers') > CopiesIn(m, timers)

\* C22: when the placement of the call fails during the dispatch of a pass and
\* the failure is recorded (callStatus = failed instead of calling), the pass
\* goes on to mark the reminder notified, and the bounded retry path is taken:
\* a retry is armed while callAttempts is below 2.
C22_FailedPlacementRetried ==
    [][\A t \in Running :
         (/\ Moved(t) /\ PlacementFailed(t)
          /\ t.kind \in {"time", "location", "update"}
          /\ db'[t.id].callStatus = "failed") =>
           /\ \E u \in Running' : u.kind = t.kind /\ u.id = t.id /\ u.pc = "finish"
           /\ db[t.id].callAttempts < 2 => RetryArmed(t.id)
      ]_vars

\* One tick, of the time loop or of the location loop, over two due hybrid
\* reminders of an owner who is called and is within 100 m of both, while the
\* store, the mail service and the provider may fail at every awaited operation.
InitTick ==
    /\ now = DueAt
    /\ db = [r \in {1, 2} |-> NewReminder(DueAt)]
    /\ owner = [twilioPhoneNumber |-> TRUE, currentLocation |-> NearMeters]
    /\ activeReminders = {}
    /\ timeCronJob = 1
    /\ locationCronJob = 2
    /\ cronTasks = << [loop |-> "time", running |-> TRUE],
                      [loop |-> "location", running |-> TRUE] >>
    /\ tasks = EmptyBag
    /\ timers = EmptyBag
    /\ calls = << >>
    /\ faults = TRUE
    /\ hist = NoHist
    /\ budget = [NoBudget EXCEPT !.starts = 1]

\* the first tick after start(), of either loop
FirstTick ==
    /\ budget.passes = 0
    /\ \/ TimeCronTick
       \/ LocationCronTick

NextTick ==
    \/ FirstTick
    \/ TimeLoop
    \/ LocationLoop
    \/ Dispatch
    \/ CallCatch
    \/ Finish

SpecTick == InitTick /\ [][NextTick]_vars

\* the passes started by the ticks of the two scheduler loops
TickPasses == { t \in Running : t.kind \in {"time", "location"} }

\* C23: whatever fails while a tick processes a candidate, the failure stays
\* inside the tick: the step leaves the cron tasks as they are, and the pass
\* either stays with its head candidate, or goes on with the remaining
\* candidates, or returns once no candidate remains; the candidates are held
\* and taken in the order the store returned them.
C23_FailureContained ==
    /\ [](\A t \in TickPasses :
            \A i, j \in DOMAIN t.todo : i < j => t.todo[i] < t.todo[j])
    /\ [][\A t \in TickPasses :
            Moved(t) =>
              LET rest == Tail(t.todo) IN
              /\ cronTasks' = cronTasks
              /\ \/ \E u \in Running' :
                      /\ tasks' = (tasks (-) One(t)) (+) One(u)
                      /\ u.kind = t.kind
                      /\ \/ /\ u.pc \in CallSteps \cup {"finish"}
                            /\ u.id = Head(t.todo)
                            /\ u.todo = t.todo
                         \/ /\ u.pc = "loop"
                            /\ rest # << >>
                            /\ u.todo = rest
                 \/ /\ rest = << >>
                    /\ tasks' = tasks (-) One(t)
         ]_vars

\* the processing of the first candidate was left by an exception (no push,
\* no save of its flag) and the same tick has processed the second candidate
C23_SecondProcessedAfterFailure ==
    /\ budget.time = 1
    /\ tasks = EmptyBag
    /\ hist.pushes[<<"time", 1>>] = 0
    /\ hist.sets[<<"time", 1>>] = 0
    /\ hist.sets[<<"time", 2>>] = 1
    /\ db[2].timeNotificationSent

\* The timers of the call tracker while the scheduler is stopped at any
\* moment: the due reminder is fired by the first tick of the time loop, its
\* calls are polled and redialled.  No operation fails.  A pending timeout of
\* the Node.js event loop fires: the timer actions are weakly fair.
NextStop ==
    \/ FirstTimeTick
    \/ TimeLoop
    \/ Dispatch
    \/ Finish
    \/ Polling
    \/ Stop

SpecStop ==
    /\ InitCall
    /\ [][NextStop]_vars
    /\ WF_vars(PollTimerFires)
    /\ WF_vars(RetryTimerFires)

\* the 35 s timer of the call sid is pending
PollPending(sid) == \E m \in BagToSet(timers) : m.kind = "poll" /\ m.sid = sid

\* checkCallStatus has been invoked for the call sid
PollRuns(sid) == \E t \in Running : t.kind = "poll" /\ t.pc = "find" /\ t.sid = sid

\* a 60 s retry timer of reminder r is pending
RetryPending(r) ==
    \E m \in BagToSet(timers) : m.kind \in {"retry_poll", "retry_webhook"} /\ m.r = r

\* the retry callback has invoked makeReminderCall for reminder r
RetryRuns(r) == \E t \in Running : t.kind = "retry" /\ t.pc = "call_find" /\ t.rem = r

\* C24: stop() prevents new ticks only: it cancels no pending timeout and no
\* invocation in progress, so the poll armed by a successful dispatch
\* eventually runs for that call sid and an armed retry eventually re-invokes
\* the dispatch step, also when stop() is called while the timer is pending.
C24_TimersSurviveStop ==
    /\ [][Stop => (timers' = timers /\ tasks' = tasks)]_vars
    /\ [](timeCronJob = Null => ~CronFires("time"))
    /\ \A sid \in 1..MaxAttempts : PollPending(sid) ~> PollRuns(sid)
    /\ \A r \in {1} : RetryPending(r) ~> RetryRuns(r)

\* stop() was called while the poll timer of the first call was pending and
\* again while the retry timer was pending; the retry has fired since and the
\* second call has been placed and is being polled
C24_FiredAfterStop ==
    /\ timeCronJob = Null
    /\ \E m \in hist.stopped : m.kind = "poll" /\ m.sid = 1
    /\ \E m \in hist.stopped : m.kind = "retry_poll"
    /\ hist.redials[1] = 1
    /\ hist.placed[1] = 2
    /\ PollRuns(2)

\* what a trigger pass does for a reminder besides the call: the e-mails, the
\* pushes, the saves of a notified flag, and the flags and timestamps
TriggerEffects ==
    << hist.emails, hist.pushes, hist.sets,
       [r \in Ids |-> <<TimeFields(r), LocationFields(r)>>] >>

\* C25: a voice-call retry re-invokes the call dispatch step only: the firing
\* of a retry timer starts makeReminderCall and nothing else, and no step of
\* the retry sends an e-mail, emits a push or changes timeNotificationSent,
\* locationNotificationSent or their timestamps; the retry evaluates no
\* trigger predicate: with callAttempts below 2 it goes on to the call
\* whatever the notified flags are.
C25_RetryDispatchOnly ==
    /\ [][RetryTimerFires =>
            /\ TriggerEffects' = TriggerEffects
            /\ \E u \in Running' :
                 /\ u.kind = "retry" /\ u.pc = "call_find"
                 /\ tasks' = tasks (+) One(u)
         ]_vars
    /\ [][\A t \in Running :
            (Moved(t) /\ t.kind = "retry") =>
              /\ TriggerEffects' = TriggerEffects
              /\ \/ tasks' = tasks (-) One(t)
                 \/ \E u \in Running' :
                      /\ u.kind = "retry" /\ u.pc \in CallSteps
                      /\ tasks' = (tasks (-) One(t)) (+) One(u)
              /\ (t.pc = "call_find" /\ Found(t.id) /\ db[t.id].callAttempts < 2) =>
                   \E u \in Running' : u.kind = "retry" /\ u.pc = "call_mark"
         ]_vars

\* a retry has placed the second call of a reminder whose time trigger was
\* already marked notified, without a second e-mail or push
C25_RedialledAfterNotified ==
    \E r \in Ids :
      /\ hist.redials[r] > 0
      /\ hist.placed[r] = 2
      /\ db[r].timeNotificationSent
      /\ hist.emails[<<"time", r>>] = 1
      /\ hist.pushes[<<"time", r>>] = 1
      /\ hist.sets[<<"time", r>>] = 1

\* C26: for one call attempt at most one retry is armed and at most one retry
\* places a call, however many reports (the callback, the 35 s poll, several
\* callbacks) tell that the attempt was not completed: while the reminder has
\* had one call only, at most one retry has been armed for it, and a reminder
\* fired by one trigger gets at most the one further call.
C26_OneRetryPerAttempt ==
    \A r \in Ids :
      /\ hist.placed[r] = 1 => hist.retries[r] <= 1
      /\ hist.placed[r] <= 2

\* C27: under every interleaving of the dispatches of one reminder the read
\* of callAttempts, its incremented write and the placement act as one atomic
\* step: every dispatch that passed the guard raises the stored callAttempts
\* by one (no lost increment), and no more than 2 calls are placed for a
\* reminder.
C27_AtomicDispatch ==
    /\ [](\A r \in Ids : hist.placed[r] <= MaxAttempts)
    /\ [][\A t \in Running :
            (Moved(t) /\ t.pc = "call_mark") =>
              db'[t.id].callAttempts = db[t.id].callAttempts + 1
         ]_vars

\* the call was answered and has completed
Answered(sid) ==
    /\ sid \in DOMAIN calls
    /\ calls[sid].status = "completed"
    /\ calls[sid].duration # Null /\ calls[sid].duration > 0

\* C28: only a final outcome of a call moves callStatus off calling and arms a
\* retry: a report that the call is still in progress (ringing, in-progress)
\* leaves callStatus unchanged and arms no retry, so a reminder whose first
\* call is answered and completed never gets a second call.
C28_InProgressReportInert ==
    /\ [][\A t \in Reports :
            (Moved(t) /\ t.pc = "update" /\ Found(t.id) /\ t.status \in InProgress) =>
              /\ db'[t.id].callStatus = db[t.id].callStatus
              /\ hist'.retries = hist.retries
              /\ timers' = timers
         ]_vars
    /\ [](\A r \in Ids : (Answered(1) /\ calls[1].r = r) => hist.placed[r] <= 1)

\* the timers of the call tracker: status polls and retries
CallTimers == { m \in BagToSet(timers) : m.kind \in {"poll", "retry_poll", "retry_webhook"} }

C30_BudgetPerReminder ==
    /\ [][\A t \in Running :
            (Moved(t) /\ t.pc = "call_place" /\ calls' # calls) =>
              hist.placed[t.id] < MaxAttempts
         ]_vars
    /\ [][\A r \in Ids : db'[r].callAttempts >= db[r].callAttempts]_vars
    /\ [][\A t \in Running :
            (/\ Moved(t) /\ t.pc = "call_find"
             /\ t.kind \in {"time", "location", "update"}
             /\ Found(t.id) /\ db[t.id].callAttempts >= MaxAttempts) =>
              /\ calls' = calls
              /\ \E u \in Running' : u.kind = t.kind /\ u.id = t.id /\ u.pc = "finish"
         ]_vars

====
